---------------------------- MODULE Spec2Model ----------------------------
(***************************************************************************)
(* Model of the statistics pipeline of BioreactorHandleAnalysis.jsx.       *)
(*                                                                         *)
(* Numbers.  JavaScript numbers are modelled as exact rationals            *)
(* [num, den] (den > 0, lowest terms).  A value that the code obtains      *)
(* through Math.sqrt / math.std is carried by its square.  The IEEE        *)
(* results of a division by zero are kept apart from the finite values:    *)
(* x/0 is "infinite" and 0/0 is "nan", and a comparison with NaN is false, *)
(* as in JavaScript.  Rounding of the last bit of a double is not          *)
(* modelled.                                                               *)
(*                                                                         *)
(* Library calls.  math.mean / math.variance / math.std are mathjs with    *)
(* its default arguments: mean of an empty array throws, variance and std  *)
(* use the 'unbiased' normalisation (divisor n - 1, and 0 for one          *)
(* observation).                                                           *)
(***************************************************************************)
EXTENDS Integers, Sequences, FiniteSets, TLC

VARIABLES
    \* React state of the component (useState, lines 28-34)
    data, loading, error, tab,
    statisticalResults, aggregateScores, demographicBreakdown,
    \* position of the async fetchData callback (lines 42-77), the number of
    \* requests issued so far, and what the last render returned
    fetchState, fetches, view,
    \* inputs / outputs of the pure statistics functions checked on their own
    arr1, arr2, cmp,
    row, scored, cleaned,
    dIn, labelled

vars == << data, loading, error, tab, statisticalResults, aggregateScores,
           demographicBreakdown, fetchState, fetches, view, arr1, arr2, cmp,
           row, scored, cleaned, dIn, labelled >>

componentVars == << data, loading, error, tab, statisticalResults,
                    aggregateScores, demographicBreakdown, fetchState, fetches,
                    view >>

statsVars == << arr1, arr2, cmp >>

scoreVars == << row, scored, cleaned >>

labelVars == << dIn, labelled >>

----------------------------------------------------------------------------
(* Bounds of the model *)

\* longest sample handed to the pure statistics functions
MaxLen == 3

\* largest effect size handed to interpretCohenD on its own, in hundredths
MaxHundredths == 120

\* largest number of rows in a parsed dataset
MaxRows == 3

----------------------------------------------------------------------------
(* Optional values: null is the empty tuple, a present value a 1-tuple *)

NULL == << >>

Some(x) == << x >>

IsNull(o) == o = << >>

----------------------------------------------------------------------------
(* Field values of a parsed row: absent (null / undefined), number, string *)

Null == [t |-> "null", n |-> 0, s |-> << >>]

Num(k) == [t |-> "num", n |-> k, s |-> << >>]

Str(chars) == [t |-> "str", n |-> 0, s |-> chars]

\* JavaScript truthiness of a field value: null, undefined, 0 and "" are falsy
Truthy(v) ==
    CASE v.t = "null" -> FALSE
      [] v.t = "num"  -> v.n # 0
      [] v.t = "str"  -> Len(v.s) > 0

\* the filter used on every metric column: v !== null && v !== undefined
Present(v) == v.t # "null"

----------------------------------------------------------------------------
(* Exact rational arithmetic *)

Abs(x) == IF x < 0 THEN -x ELSE x

Sign(x) == IF x < 0 THEN -1 ELSE IF x > 0 THEN 1 ELSE 0

RECURSIVE GCD(_, _)
GCD(a, b) == IF b = 0 THEN a ELSE GCD(b, a % b)

Rat(n, d) ==
    LET g == GCD(Abs(n), Abs(d))
        s == IF d < 0 THEN -1 ELSE 1
    IN  [num |-> s * (n \div g), den |-> s * (d \div g)]

RZero == [num |-> 0, den |-> 1]

RInt(k) == [num |-> k, den |-> 1]

RAdd(a, b) == Rat(a.num * b.den + b.num * a.den, a.den * b.den)

RSub(a, b) == Rat(a.num * b.den - b.num * a.den, a.den * b.den)

RMul(a, b) == Rat(a.num * b.num, a.den * b.den)

\* b # 0
RDiv(a, b) == Rat(a.num * b.den, a.den * b.num)

RLess(a, b) == a.num * b.den < b.num * a.den

RLeq(a, b) == a.num * b.den <= b.num * a.den

RSign(a) == Sign(a.num)

RAbs(a) == [num |-> Abs(a.num), den |-> a.den]

----------------------------------------------------------------------------
(* JavaScript numbers that may be non-finite *)

\* a finite value known by its sign and its square (results of a sqrt)
Finite(sign, sq) == [k |-> "finite", sign |-> sign, sq |-> sq]

Infinite(sign) == [k |-> "infinite", sign |-> sign, sq |-> RZero]

NaN == [k |-> "nan", sign |-> 0, sq |-> RZero]

\* x / Math.sqrt(rad), for a rational x and a radicand rad >= 0
DivBySqrt(x, rad) ==
    IF rad.num = 0
    THEN IF x.num = 0 THEN NaN ELSE Infinite(RSign(x))
    ELSE Finite(RSign(x), RDiv(RMul(x, x), rad))

\* Math.abs(v) > c/100, false for NaN
AbsGreater(v, c) ==
    CASE v.k = "nan"      -> FALSE
      [] v.k = "infinite" -> TRUE
      [] v.k = "finite"   -> RLess(Rat(c * c, 10000), v.sq)

\* v < c/100 for a value v >= 0 or NaN (false for NaN)
LessThan(v, c) ==
    CASE v.k = "nan"      -> FALSE
      [] v.k = "infinite" -> v.sign < 0
      [] v.k = "finite"   -> IF v.sign < 0 THEN TRUE
                             ELSE RLess(v.sq, Rat(c * c, 10000))

----------------------------------------------------------------------------
(* mathjs, default arguments *)

RECURSIVE Sum(_)
Sum(arr) == IF Len(arr) = 0 THEN 0 ELSE Head(arr).n + Sum(Tail(arr))

\* squared deviations from the mean S/n, times n^2: sum of (n*x - S)^2
RECURSIVE SumSqDevScaled(_, _, _)
SumSqDevScaled(arr, n, S) ==
    IF Len(arr) = 0 THEN 0
    ELSE (n * Head(arr).n - S) * (n * Head(arr).n - S)
         + SumSqDevScaled(Tail(arr), n, S)

\* a non-numeric string cannot be converted by mathjs
AllNumeric(arr) == \A i \in 1..Len(arr) : arr[i].t = "num"

\* math.mean(arr) throws on an empty array and on a non-numeric string
mathMeanThrows(arr) == Len(arr) = 0 \/ ~AllNumeric(arr)

mathMean(arr) == Rat(Sum(arr), Len(arr))

\* the 'uncorrected' normalisation (divisor n), which the code does not ask for
mathVarianceUncorrected(arr) ==
    LET n == Len(arr)
    IN  Rat(SumSqDevScaled(arr, n, Sum(arr)), n * n * n)

\* math.variance(arr): 'unbiased', divisor n - 1, 0 for a single observation
mathVariance(arr) ==
    LET n == Len(arr)
    IN  IF n = 1 THEN RZero
        ELSE Rat(SumSqDevScaled(arr, n, Sum(arr)), n * n * (n - 1))

\* math.std(arr) = sqrt(math.variance(arr)), carried by its square
mathStd(arr) == [sq |-> mathVariance(arr)]


----------------------------------------------------------------------------
(* Descriptive statistics, lines 201-214 *)

\* 1.96 (line 212), 2.7 and 2.0 (lines 234-235), 0.2 / 0.5 / 0.8 (lines
\* 263-265), each times 100
Z95 == 196

TCritical01 == 270

TCritical05 == 200

DSmall == 20

DMedium == 50

DLarge == 80

ZeroStd == [sq |-> RZero]

\* calculateStats reaches math.mean only past its guard; a string element
\* makes mathjs throw
calculateStatsThrows(arr) == Len(arr) > 0 /\ mathMeanThrows(arr)

calculateStats(arr) ==
    IF Len(arr) = 0
    THEN [mean |-> RZero, stdDev |-> ZeroStd, n |-> 0]
    ELSE [mean |-> mathMean(arr), stdDev |-> mathStd(arr), n |-> Len(arr)]

\* one end of an interval: base + sign * sqrt(sq), or NaN
Bound(base, sign, sq) ==
    [k |-> "finite", base |-> base,
     sign |-> IF sq.num = 0 THEN 0 ELSE sign, sq |-> sq]

NaNBound == [k |-> "nan", base |-> RZero, sign |-> 0, sq |-> RZero]

ZeroBound == Bound(RZero, 0, RZero)

\* marginOfError^2 = (1.96 * stdDev / sqrt(n))^2, n >= 1
MarginSq(stdDev, n) == RMul(Rat(Z95 * Z95, 10000), RDiv(stdDev.sq, RInt(n)))

\* the guard taken as n < 1: one observation gets an interval of its own
calculateCI_GuardBelowOne(mean, stdDev, n) ==
    IF n < 1 THEN << ZeroBound, ZeroBound >>
    ELSE << Bound(mean, -1, MarginSq(stdDev, n)),
            Bound(mean, 1, MarginSq(stdDev, n)) >>

\* no guard at all: 0 / Math.sqrt(0) is NaN
calculateCI_NoGuard(mean, stdDev, n) ==
    IF n = 0 THEN << NaNBound, NaNBound >>
    ELSE << Bound(mean, -1, MarginSq(stdDev, n)),
            Bound(mean, 1, MarginSq(stdDev, n)) >>

calculateCI(mean, stdDev, n) ==
    IF n <= 1 THEN << ZeroBound, ZeroBound >>
    ELSE << Bound(mean, -1, MarginSq(stdDev, n)),
            Bound(mean, 1, MarginSq(stdDev, n)) >>

----------------------------------------------------------------------------
(* Pairwise comparison, lines 216-267 *)

\* both thresholds one hundredth lower, so that 2.0 and 2.7 pass them
pValueBucket_Inclusive(t) ==
    IF AbsGreater(t, TCritical01 - 1) THEN "< 0.01"
    ELSE IF AbsGreater(t, TCritical05 - 1) THEN "< 0.05"
    ELSE "> 0.05"

\* the bucket of lines 232-236
pValueBucket(t) ==
    IF AbsGreater(t, TCritical01) THEN "< 0.01"
    ELSE IF AbsGreater(t, TCritical05) THEN "< 0.05"
    ELSE "> 0.05"

\* the variances not divided by the sample sizes
tTest_VarianceNotPerObservation(arr1_, arr2_) ==
    IF Len(arr1_) = 0 \/ Len(arr2_) = 0
    THEN [t |-> Finite(0, RZero), pValue |-> "> 0.05"]
    ELSE
      LET t == DivBySqrt(RSub(mathMean(arr1_), mathMean(arr2_)),
                         RAdd(mathVariance(arr1_), mathVariance(arr2_)))
      IN  [t |-> t, pValue |-> pValueBucket(t)]

tTest(arr1_, arr2_) ==
    IF Len(arr1_) = 0 \/ Len(arr2_) = 0
    THEN [t |-> Finite(0, RZero), pValue |-> "> 0.05"]
    ELSE
      LET mean1 == mathMean(arr1_)
          mean2 == mathMean(arr2_)
          var1  == mathVariance(arr1_)
          var2  == mathVariance(arr2_)
          n1    == Len(arr1_)
          n2    == Len(arr2_)
          t     == DivBySqrt(RSub(mean1, mean2),
                             RAdd(RDiv(var1, RInt(n1)), RDiv(var2, RInt(n2))))
      IN  [t |-> t, pValue |-> pValueBucket(t)]

\* Math.abs(mean1 - mean2) / pooledSD, with
\* pooledSD = Math.sqrt(((n1-1)*s1*s1 + (n2-1)*s2*s2) / (n1+n2-2))
cohenD(arr1_, arr2_) ==
    IF Len(arr1_) = 0 \/ Len(arr2_) = 0
    THEN Finite(0, RZero)
    ELSE
      LET mean1 == mathMean(arr1_)
          mean2 == mathMean(arr2_)
          n1    == Len(arr1_)
          n2    == Len(arr2_)
          s1    == mathStd(arr1_)
          s2    == mathStd(arr2_)
          top   == RAdd(RMul(RInt(n1 - 1), s1.sq), RMul(RInt(n2 - 1), s2.sq))
          diff  == RAbs(RSub(mean1, mean2))
      IN  IF n1 + n2 - 2 = 0
          THEN NaN                  \* top is 0 here: 0/0, sqrt(NaN), x/NaN
          ELSE DivBySqrt(diff, RDiv(top, RInt(n1 + n2 - 2)))

\* every threshold one hundredth higher, so that 0.2, 0.5 and 0.8 fall below
interpretCohenD_BoundsExclusive(d) ==
    IF LessThan(d, DSmall + 1) THEN "Negligible"
    ELSE IF LessThan(d, DMedium + 1) THEN "Small"
    ELSE IF LessThan(d, DLarge + 1) THEN "Medium"
    ELSE "Large"

interpretCohenD(d) ==
    IF LessThan(d, DSmall) THEN "Negligible"
    ELSE IF LessThan(d, DMedium) THEN "Small"
    ELSE IF LessThan(d, DLarge) THEN "Medium"
    ELSE "Large"

----------------------------------------------------------------------------
(* One (metric, handle) group and one pair of handles, as the map of       *)
(* runStatisticalAnalysis reports them, lines 130-189                      *)

\* { mean, stdDev, ci, n } of one handle, lines 131-137 and 151-168
describe(arr) ==
    LET stats == calculateStats(arr)
    IN  [mean |-> stats.mean, stdDev |-> stats.stdDev,
         ci |-> calculateCI(stats.mean, stats.stdDev, stats.n), n |-> stats.n]

\* { tValue, pValue, effectSize, interpretation } of one pair, lines 140-147
\* and 170-187
compare(a, b) ==
    LET tt == tTest(a, b)
        d  == cohenD(a, b)
    IN  [tValue |-> tt.t, pValue |-> tt.pValue, effectSize |-> d,
         interpretation |-> interpretCohenD(d)]

----------------------------------------------------------------------------
(* The pure statistics functions on their own: every pair of samples of    *)
(* at most MaxLen observations                                             *)

SampleVals == { Num(v) : v \in {2, 3, 4, 5} }

Samples == UNION { [1..n -> SampleVals] : n \in 0..MaxLen }

\* what the component returns while loading, lines 700-707
LoaderShown ==
    [kind |-> "loading", message |-> NULL, significantDifferences |-> << >>,
     insights |-> << >>, recommendation |-> ""]

\* the component as constructed (lines 28-34), before its effect has run
ComponentIdle ==
    /\ data = << >>
    /\ loading = TRUE
    /\ error = NULL
    /\ tab = "overview"
    /\ statisticalResults = NULL
    /\ aggregateScores = NULL
    /\ demographicBreakdown = NULL
    /\ fetchState = "idle"
    /\ fetches = 0
    /\ view = LoaderShown

\* no effect size is being labelled
LabelIdle ==
    /\ dIn = NULL
    /\ labelled = NULL

InitStats ==
    /\ ComponentIdle
    /\ arr1 \in Samples
    /\ arr2 \in Samples
    /\ cmp = NULL
    /\ row = NULL
    /\ scored = NULL
    /\ cleaned = << >>
    /\ LabelIdle

AnalysePair ==
    /\ cmp = NULL
    /\ cmp' = Some([first |-> describe(arr1), second |-> describe(arr2),
                    comparison |-> compare(arr1, arr2)])
    /\ UNCHANGED << arr1, arr2 >>
    /\ UNCHANGED componentVars
    /\ UNCHANGED scoreVars
    /\ UNCHANGED labelVars

NextStats == AnalysePair

SpecStats == InitStats /\ [][NextStats]_vars

----------------------------------------------------------------------------
(* interpretCohenD on its own: every effect size of a whole number of      *)
(* hundredths up to MaxHundredths, and the two non-finite values cohenD    *)
(* can return                                                              *)

\* the number k/100
Hundredths(k) == Finite(Sign(k), Rat(k * k, 10000))

EffectSizes ==
    { Hundredths(k) : k \in (0 - MaxHundredths)..MaxHundredths }
    \cup { NaN, Infinite(1) }

InitLabel ==
    /\ ComponentIdle
    /\ arr1 = << >>
    /\ arr2 = << >>
    /\ cmp = NULL
    /\ row = NULL
    /\ scored = NULL
    /\ cleaned = << >>
    /\ \E d \in EffectSizes : dIn = Some(d)
    /\ labelled = NULL

Label ==
    /\ labelled = NULL
    /\ labelled' = Some(interpretCohenD(dIn[1]))
    /\ UNCHANGED dIn
    /\ UNCHANGED componentVars
    /\ UNCHANGED statsVars
    /\ UNCHANGED scoreVars

NextLabel == Label

SpecLabel == InitLabel /\ [][NextLabel]_vars

----------------------------------------------------------------------------
(* Rows of the parsed survey: a mapping from the CSV header names to       *)
(* field values                                                            *)

handleTypes == << "Rectangle Handle", "Curved Handle", "Circle Undergrip Handle" >>

\* column suffix of each handle: bare name, _1, _2
Suffixes == << "", "_1", "_2" >>

RatingNames ==
    { "Positioning Accuracy", "Comfort", "Grip Security", "Ease of Use",
      "Intuitiveness ", "Overall Satisfaction" }

attemptFields ==
    << "Number of Attempts", "Number of Attempts_1", "Number of Attempts_2" >>

\* 'Handle Preference Ranking  [<handle>]'
RankField(h) == "Handle Preference Ranking  [" \o h \o "]"

RankFields == [i \in 1..3 |-> RankField(handleTypes[i])]

demographicFactors ==
    << "Age Range", "  Gender  ", "  Hand Dominance  ",
       "Previous Experience with Laboratory Equipment  ", "Height" >>

ParticipantIdField == "  Please enter your assigned participant ID:"

Range(seq) == { seq[i] : i \in 1..Len(seq) }

MetricFields ==
    { n \o Suffixes[h] : n \in RatingNames \cup {"Number of Attempts"},
                         h \in 1..3 }

AllFields ==
    MetricFields \cup Range(RankFields) \cup Range(demographicFactors)
        \cup {ParticipantIdField}

\* a row with the given fields set and every other column empty
RowWith(partial) ==
    [f \in AllFields |-> IF f \in DOMAIN partial THEN partial[f] ELSE Null]

----------------------------------------------------------------------------
(* Aggregate scorer, lines 269-343 *)

maxAttempts == 5

\* row[f] || 0
OrZero(v) == IF Truthy(v) THEN v.n ELSE 0

\* row[f] ? (maxAttempts - row[f]) : 0, lines 274-276
InvertedAttempts(v) == IF Truthy(v) THEN maxAttempts - v.n ELSE 0

\* the weighted sum of one handle's columns divided by 8.0 (weights and
\* divisor times 10), lines 280-308
WeightedScore(r, sfx) ==
    Rat( 15 * OrZero(r["Positioning Accuracy" \o sfx])
       + 10 * InvertedAttempts(r["Number of Attempts" \o sfx])
       + 12 * OrZero(r["Comfort" \o sfx])
       + 10 * OrZero(r["Grip Security" \o sfx])
       + 10 * OrZero(r["Ease of Use" \o sfx])
       +  8 * OrZero(r["Intuitiveness " \o sfx])
       + 15 * OrZero(r["Overall Satisfaction" \o sfx]),
       80)

rectangleScore(r) == WeightedScore(r, "")

curvedScore(r) == WeightedScore(r, "_1")

circleScore(r) == WeightedScore(r, "_2")

MathMax(a, b, c) ==
    LET ab == IF RLess(a, b) THEN b ELSE a
    IN  IF RLess(ab, c) THEN c ELSE ab

\* the chain tested against the Curved score first
topChoice_CurvedFirst(rect, curved, circle) ==
    IF MathMax(rect, curved, circle) = curved THEN "Curved Handle"
    ELSE IF MathMax(rect, curved, circle) = rect THEN "Rectangle Handle"
    ELSE "Circle Undergrip Handle"

\* lines 315-319
topChoice(rect, curved, circle) ==
    IF MathMax(rect, curved, circle) = rect THEN "Rectangle Handle"
    ELSE IF MathMax(rect, curved, circle) = curved THEN "Curved Handle"
    ELSE "Circle Undergrip Handle"

Unknown == Str(<< "Unknown" >>)

\* the callback of data.map, lines 271-321
scoreRow(r) ==
    [participantId |-> IF Truthy(r[ParticipantIdField])
                       THEN r[ParticipantIdField] ELSE Unknown,
     rectangleScore |-> rectangleScore(r),
     curvedScore |-> curvedScore(r),
     circleScore |-> circleScore(r),
     topChoice |-> topChoice(rectangleScore(r), curvedScore(r), circleScore(r))]

\* the exact sum of rs[lo..hi], added up by halves
RECURSIVE RSumRange(_, _, _)
RSumRange(rs, lo, hi) ==
    IF lo > hi THEN RZero
    ELSE IF lo = hi THEN rs[lo]
    ELSE RAdd(RSumRange(rs, lo, (lo + hi) \div 2),
              RSumRange(rs, (lo + hi) \div 2 + 1, hi))

RSum(rs) == RSumRange(rs, 1, Len(rs))

\* math.mean of a non-empty array of scores
meanOfScores(rs) == RDiv(RSum(rs), RInt(Len(rs)))

MapSeq(seq, Op(_)) == [i \in 1..Len(seq) |-> Op(seq[i])]

CountWhere(seq, Test(_)) == Cardinality({ i \in 1..Len(seq) : Test(seq[i]) })

\* line 271 with the rows that carry no participant id left out
scoresOf_IdentifiedOnly(rows) ==
    MapSeq(SelectSeq(rows, LAMBDA r : Truthy(r[ParticipantIdField])), scoreRow)

scoresOf(rows) == MapSeq(rows, scoreRow)

rectangleScores(rows) == MapSeq(scoresOf(rows), LAMBDA s : s.rectangleScore)

curvedScores(rows) == MapSeq(scoresOf(rows), LAMBDA s : s.curvedScore)

\* scores.map(s => s.circleScore).filter(Boolean): a score of 0 is dropped
circleScoresFiltered(rows) ==
    SelectSeq(MapSeq(scoresOf(rows), LAMBDA s : s.circleScore),
              LAMBDA x : x.num # 0)

\* math.mean throws on an empty array, lines 324-326
calculateAggregateScoresThrows(rows) ==
    \/ Len(rectangleScores(rows)) = 0
    \/ Len(curvedScores(rows)) = 0
    \/ Len(circleScoresFiltered(rows)) = 0

\* the value handed to setAggregateScores, lines 334-342
calculateAggregateScores(rows) ==
    LET scores == scoresOf(rows)
    IN  [average |->
            [h \in Range(handleTypes) |->
                CASE h = "Rectangle Handle" -> meanOfScores(rectangleScores(rows))
                  [] h = "Curved Handle" -> meanOfScores(curvedScores(rows))
                  [] h = "Circle Undergrip Handle" ->
                        meanOfScores(circleScoresFiltered(rows))],
         topChoiceCounts |->
            [h \in Range(handleTypes) |->
                CountWhere(scores, LAMBDA s : s.topChoice = h)],
         detail |-> scores]

----------------------------------------------------------------------------
(* The scorer of one row on its own *)

RatingChoices == { Null, Num(0), Num(1), Num(5) }

AttemptChoices == { Null, Num(0), Num(1), Num(5), Num(7) }

LevelChoices == { Null, Num(0), Num(2), Num(4), Num(5) }

AttemptLevels == { Null, Num(0), Num(1), Num(3) }

\* the seven columns of the handle with suffix sfx: the attempts value att
\* and the six ratings given by ratings[name]
HandleColumns(sfx, att, ratings) ==
    [f \in { n \o sfx : n \in RatingNames \cup {"Number of Attempts"} } |->
        IF f = "Number of Attempts" \o sfx THEN att
        ELSE ratings[CHOOSE n \in RatingNames : f = n \o sfx]]

\* rows that answer for one handle only, every combination of its columns,
\* and rows that give all six ratings of each handle one level
InitScore ==
    /\ ComponentIdle
    /\ arr1 = << >>
    /\ arr2 = << >>
    /\ cmp = NULL
    /\ \/ \E h \in 1..3, att \in AttemptChoices,
             ratings \in [RatingNames -> RatingChoices] :
              row = Some(RowWith(HandleColumns(Suffixes[h], att, ratings)))
       \/ \E lvl \in [1..3 -> LevelChoices], att \in [1..3 -> AttemptLevels] :
              row = Some(RowWith(
                  HandleColumns("", att[1], [n \in RatingNames |-> lvl[1]])
                  @@ HandleColumns("_1", att[2], [n \in RatingNames |-> lvl[2]])
                  @@ HandleColumns("_2", att[3], [n \in RatingNames |-> lvl[3]])))
    /\ scored = NULL
    /\ cleaned = << >>
    /\ LabelIdle

ScoreRow ==
    /\ scored = NULL
    /\ scored' = Some(scoreRow(row[1]))
    /\ UNCHANGED << row, cleaned >>
    /\ UNCHANGED componentVars
    /\ UNCHANGED statsVars
    /\ UNCHANGED labelVars

NextScore == ScoreRow

SpecScore == InitScore /\ [][NextScore]_vars

----------------------------------------------------------------------------
(* Demographic cross-tabulation, lines 345-376 *)

RECURSIVE Dedup(_, _)
Dedup(seq, seen) ==
    IF Len(seq) = 0 THEN << >>
    ELSE IF Head(seq) \in seen THEN Dedup(Tail(seq), seen)
    ELSE << Head(seq) >> \o Dedup(Tail(seq), seen \cup {Head(seq)})

\* [...new Set(data.map(row => row[factor]).filter(Boolean))], line 354:
\* the truthy values in the order of their first row
uniqueValues(rows, factor) ==
    Dedup(SelectSeq(MapSeq(rows, LAMBDA r : r[factor]), Truthy), {})

\* the rows are not narrowed down to the group
filteredData_AllRows(rows, factor, value) == rows

\* data.filter(row => row[factor] === value), line 358
filteredData(rows, factor, value) == SelectSeq(rows, LAMBDA r : r[factor] = value)

\* filteredData.map(row => row[rankField]).filter(Boolean), lines 362-364
ranksOf(rows, rankField) == SelectSeq(MapSeq(rows, LAMBDA r : r[rankField]), Truthy)

\* math.mean throws when no row of the group carries the rank
calculateDemographicBreakdownThrows(rows) ==
    \E fi \in 1..Len(demographicFactors) :
        LET factor == demographicFactors[fi]
            values == uniqueValues(rows, factor)
        IN  \E vi \in 1..Len(values), h \in Range(handleTypes) :
                mathMeanThrows(ranksOf(filteredData(rows, factor, values[vi]),
                                       RankField(h)))

\* the object handed to setDemographicBreakdown: per factor, the groups in
\* insertion order, each with its count and the mean rank of every handle
calculateDemographicBreakdown(rows) ==
    [factor \in Range(demographicFactors) |->
        MapSeq(uniqueValues(rows, factor),
               LAMBDA value :
                   LET group == filteredData(rows, factor, value)
                   IN  [group |-> value,
                        count |-> Len(group),
                        rank |-> [h \in Range(handleTypes) |->
                                    mathMean(ranksOf(group, RankField(h)))]])]

----------------------------------------------------------------------------
(* runStatisticalAnalysis, lines 83-199 *)

MetricNames ==
    << "Positioning Accuracy", "Number of Attempts", "Comfort", "Grip Security",
       "Ease of Use", "Intuitiveness", "Overall Satisfaction" >>

\* the column prefix of each metric ('Intuitiveness ' ends in a space)
MetricColumns ==
    << "Positioning Accuracy", "Number of Attempts", "Comfort", "Grip Security",
       "Ease of Use", "Intuitiveness ", "Overall Satisfaction" >>

\* the filter of lines 85-127 taken as filter(Boolean)
column_TruthyOnly(rows, f) == SelectSeq(MapSeq(rows, LAMBDA r : r[f]), Truthy)

\* data.map(row => row[f]).filter(v => v !== null && v !== undefined)
column(rows, f) == SelectSeq(MapSeq(rows, LAMBDA r : r[f]), Present)

metricsToAnalyze(rows) ==
    [m \in 1..7 |->
        [name |-> MetricNames[m],
         rectangle |-> column(rows, MetricColumns[m]),
         curved |-> column(rows, MetricColumns[m] \o "_1"),
         circle |-> column(rows, MetricColumns[m] \o "_2")]]

\* the map of lines 130-190 throws as soon as mathjs meets a string
analysisThrows(rows) ==
    \E m \in 1..7 :
        \/ calculateStatsThrows(metricsToAnalyze(rows)[m].rectangle)
        \/ calculateStatsThrows(metricsToAnalyze(rows)[m].curved)
        \/ calculateStatsThrows(metricsToAnalyze(rows)[m].circle)

\* the effect size of Rectangle against Curved taken of Rectangle against itself
rectVsCurved_SameSample(metric) == compare(metric.rectangle, metric.rectangle)

\* lines 140, 145 and 170-175
rectVsCurved(metric) == compare(metric.rectangle, metric.curved)

analysisResults(rows) ==
    MapSeq(metricsToAnalyze(rows),
           LAMBDA metric :
               [metric |-> metric.name,
                rectangle |-> describe(metric.rectangle),
                curved |-> describe(metric.curved),
                circle |-> describe(metric.circle),
                comparisons |->
                    [rectVsCurved |-> rectVsCurved(metric),
                     rectVsCircle |-> compare(metric.rectangle, metric.circle),
                     curvedVsCircle |-> compare(metric.curved, metric.circle)]])

----------------------------------------------------------------------------
(* What a render derives from the state, lines 496-667 and 1007-1016.      *)
(* The state is handed to the operators as arguments; an object's entries  *)
(* are visited in insertion order (the group names are not integer-like).  *)

RECURSIVE Pow10(_)
Pow10(k) == IF k = 0 THEN 1 ELSE 10 * Pow10(k - 1)

\* x.toFixed(digits), as the whole number of units of 10^-digits nearest to
\* x, a tie going away from zero
toFixed(x, digits) ==
    Sign(x.num) * ((2 * Abs(x.num) * Pow10(digits) + x.den) \div (2 * x.den))

RECURSIVE Flat(_)
Flat(seqs) == IF Len(seqs) = 0 THEN << >> ELSE Head(seqs) \o Flat(Tail(seqs))

\* only the p-value bucket marks a comparison
flagged_PValueOnly(c) == c.pValue \in { "< 0.05", "< 0.01" }

\* the condition of lines 505-508, 522-525 and 539-542
flagged(c) ==
    \/ c.pValue = "< 0.05"
    \/ c.pValue = "< 0.01"
    \/ c.interpretation = "Medium"
    \/ c.interpretation = "Large"

\* lines 515-517: fewer attempts are better, a higher rating is better
better(metric, mean1, mean2, first, second) ==
    IF metric = "Number of Attempts"
    THEN IF RLess(mean1, mean2) THEN first ELSE second
    ELSE IF RLess(mean2, mean1) THEN first ELSE second

\* the entry pushed for one pair, lines 509-518
significantComparison(result, name, c, a, b, first, second) ==
    IF flagged(c)
    THEN << [metricName |-> result.metric,
             comparison |-> name,
             effect |-> c.interpretation,
             pValue |-> c.pValue,
             meanDiff |-> toFixed(RAbs(RSub(a.mean, b.mean)), 2),
             better |-> better(result.metric, a.mean, b.mean, first, second)] >>
    ELSE << >>

\* the body of the map, lines 501-555
significantComparisons(result) ==
    significantComparison(result, "Rectangle vs Curved",
                          result.comparisons.rectVsCurved,
                          result.rectangle, result.curved,
                          "Rectangle Handle", "Curved Handle")
    \o significantComparison(result, "Rectangle vs Circle",
                             result.comparisons.rectVsCircle,
                             result.rectangle, result.circle,
                             "Rectangle Handle", "Circle Undergrip Handle")
    \o significantComparison(result, "Curved vs Circle",
                             result.comparisons.curvedVsCircle,
                             result.curved, result.circle,
                             "Curved Handle", "Circle Undergrip Handle")

findSignificantDifferences(statisticalResults_) ==
    IF IsNull(statisticalResults_) THEN << >>
    ELSE Flat(MapSeq(statisticalResults_[1], significantComparisons))

\* the reduce of lines 567-570 and 1010-1013 over the entries from index i on
RECURSIVE bestAggregateFrom(_, _, _)
bestAggregateFrom(average, i, best) ==
    IF i > Len(handleTypes) THEN best
    ELSE bestAggregateFrom(average, i + 1,
            IF RLess(best.score, average[handleTypes[i]])
            THEN [handle |-> handleTypes[i], score |-> average[handleTypes[i]]]
            ELSE best)

bestAggregate(average) ==
    bestAggregateFrom(average, 1, [handle |-> "", score |-> RZero]).handle

\* the helper of lines 1007-1016
bestHandle(aggregateScores_) ==
    IF IsNull(aggregateScores_) THEN "Circle Undergrip Handle"
    ELSE bestAggregate(aggregateScores_[1].average)

\* aggregateScores.average[''] is undefined and undefined.toFixed throws,
\* line 575
overallBestThrows(agg) == bestAggregate(agg.average) = ""

\* lines 567-576
overallBest(agg) ==
    LET handle == bestAggregate(agg.average)
    IN  [key |-> "overall-best",
         handle |-> handle,
         score |-> toFixed(agg.average[handle], 2)]

\* the reduce of lines 579-582
RECURSIVE mostPreferredFrom(_, _, _)
mostPreferredFrom(counts, i, best) ==
    IF i > Len(handleTypes) THEN best
    ELSE mostPreferredFrom(counts, i + 1,
            IF counts[handleTypes[i]] > best.count
            THEN [handle |-> handleTypes[i], count |-> counts[handleTypes[i]]]
            ELSE best)

\* lines 579-588; topChoiceCounts[''] is undefined when no count is above 0
mostPreferred(agg, rows) ==
    LET handle == mostPreferredFrom(agg.topChoiceCounts, 1,
                                    [handle |-> "", count |-> 0]).handle
    IN  [key |-> "most-preferred",
         handle |-> handle,
         count |-> IF handle = "" THEN NULL
                   ELSE Some(agg.topChoiceCounts[handle]),
         outOf |-> Len(rows),
         percent |-> IF handle = "" \/ Len(rows) = 0 THEN NULL
                     ELSE Some(toFixed(Rat(100 * agg.topChoiceCounts[handle],
                                           Len(rows)), 0))]

\* lines 591-599: at most the first two metric names are quoted
significantDifferencesInsight(stat) ==
    LET significantDiffs == findSignificantDifferences(Some(stat))
        names == MapSeq(significantDiffs, LAMBDA d : d.metricName)
    IN  IF Len(significantDiffs) > 0
        THEN << [key |-> "significant-differences",
                 metrics |-> SubSeq(names, 1, IF Len(names) < 2 THEN Len(names)
                                              ELSE 2),
                 details |-> significantDiffs] >>
        ELSE << >>

\* the reduce of lines 609-612 over the groups of one factor
RECURSIVE bestGroupFrom(_, _, _)
bestGroupFrom(breakdown, handleType, best) ==
    IF Len(breakdown) = 0 THEN best
    ELSE bestGroupFrom(Tail(breakdown), handleType,
            IF RLess(Head(breakdown).rank[handleType], best.rank)
            THEN [group |-> Head(breakdown).group,
                  rank |-> Head(breakdown).rank[handleType]]
            ELSE best)

\* lines 605-624 with the factors of a single group taken too
demographicInsights_EveryFactor(demo) ==
    Flat(MapSeq(demographicFactors,
        LAMBDA factor :
            IF Len(demo[factor]) > 0
            THEN Flat(MapSeq(handleTypes,
                    LAMBDA handleType :
                        LET bestGroup ==
                                bestGroupFrom(demo[factor], handleType,
                                    [group |-> Str(<< >>), rank |-> RInt(5)])
                        IN  IF Truthy(bestGroup.group)
                            THEN << [factor |-> factor,
                                     group |-> bestGroup.group,
                                     handle |-> handleType,
                                     rank |-> bestGroup.rank] >>
                            ELSE << >>))
            ELSE << >>))

\* lines 605-624
demographicInsights(demo) ==
    Flat(MapSeq(demographicFactors,
        LAMBDA factor :
            IF Len(demo[factor]) > 1
            THEN Flat(MapSeq(handleTypes,
                    LAMBDA handleType :
                        LET bestGroup ==
                                bestGroupFrom(demo[factor], handleType,
                                    [group |-> Str(<< >>), rank |-> RInt(5)])
                        IN  IF Truthy(bestGroup.group)
                            THEN << [factor |-> factor,
                                     group |-> bestGroup.group,
                                     handle |-> handleType,
                                     rank |-> bestGroup.rank] >>
                            ELSE << >>))
            ELSE << >>))

\* the reduce of lines 628-631
RECURSIVE strongestFrom(_, _)
strongestFrom(insights, strongest) ==
    IF Len(insights) = 0 THEN strongest
    ELSE strongestFrom(Tail(insights),
            IF RLess(Head(insights).rank, strongest.rank) THEN Head(insights)
            ELSE strongest)

\* lines 626-638
demographicInsight(demo) ==
    LET found == demographicInsights(demo)
        strongestDemographic ==
            strongestFrom(found, [factor |-> "undefined",
                                  group |-> Str(<< >>),
                                  handle |-> "undefined",
                                  rank |-> RInt(5)])
    IN  IF Len(found) > 0
        THEN << [key |-> "demographic-insight",
                 group |-> strongestDemographic.group,
                 handle |-> strongestDemographic.handle] >>
        ELSE << >>

\* lines 643-653: the handle whose mean is above both others, else Circle
topHandleMetric(result) ==
    IF RLess(result.curved.mean, result.rectangle.mean)
       /\ RLess(result.circle.mean, result.rectangle.mean)
    THEN [metric |-> result.metric, handle |-> "Rectangle Handle",
          score |-> result.rectangle.mean]
    ELSE IF RLess(result.rectangle.mean, result.curved.mean)
            /\ RLess(result.circle.mean, result.curved.mean)
    THEN [metric |-> result.metric, handle |-> "Curved Handle",
          score |-> result.curved.mean]
    ELSE [metric |-> result.metric, handle |-> "Circle Undergrip Handle",
          score |-> result.circle.mean]

\* the reduce of lines 655-658
RECURSIVE weakestFrom(_, _)
weakestFrom(metrics, weakest) ==
    IF Len(metrics) = 0 THEN weakest
    ELSE weakestFrom(Tail(metrics),
            IF RLess(Head(metrics).score, weakest.score) THEN Head(metrics)
            ELSE weakest)

\* lines 643-664; the starting value { score: 5 } names no metric
improvementArea(stat) ==
    LET weakestMetric ==
            weakestFrom(MapSeq(stat, topHandleMetric),
                        [metric |-> "undefined", handle |-> "undefined",
                         score |-> RInt(5)])
    IN  [key |-> "improvement-area",
         metric |-> weakestMetric.metric,
         score |-> toFixed(weakestMetric.score, 1)]

\* generateInsights raises a TypeError, line 575
generateInsightsThrows(stat, agg, demo) ==
    /\ ~IsNull(stat)
    /\ ~IsNull(agg)
    /\ ~IsNull(demo)
    /\ overallBestThrows(agg[1])

\* the guard of line 562 dropped
generateInsights_Unguarded(stat, agg, demo, rows) ==
    (IF IsNull(agg) THEN << >>
     ELSE << overallBest(agg[1]), mostPreferred(agg[1], rows) >>)
    \o (IF IsNull(stat) THEN << >> ELSE significantDifferencesInsight(stat[1]))
    \o (IF IsNull(demo) THEN << >> ELSE demographicInsight(demo[1]))
    \o (IF IsNull(stat) THEN << >> ELSE << improvementArea(stat[1]) >>)

\* the array generateInsights returns when it does not throw, lines 561-667
generateInsights(stat, agg, demo, rows) ==
    IF IsNull(stat) \/ IsNull(agg) \/ IsNull(demo)
    THEN << >>
    ELSE << overallBest(agg[1]), mostPreferred(agg[1], rows) >>
         \o significantDifferencesInsight(stat[1])
         \o demographicInsight(demo[1])
         \o << improvementArea(stat[1]) >>

\* the error line, line 709
ErrorShown(message) ==
    [kind |-> "error", message |-> message, significantDifferences |-> << >>,
     insights |-> << >>, recommendation |-> ""]

\* an exception thrown while rendering unmounts the component
Crashed ==
    [kind |-> "crashed", message |-> NULL, significantDifferences |-> << >>,
     insights |-> << >>, recommendation |-> ""]

\* the derived values of lines 716-717 and the recommendation of line 983
Report(stat, agg, demo, rows) ==
    IF generateInsightsThrows(stat, agg, demo)
    THEN Crashed
    ELSE [kind |-> "report",
          message |-> NULL,
          significantDifferences |-> findSignificantDifferences(stat),
          insights |-> generateInsights(stat, agg, demo, rows),
          recommendation |-> bestHandle(agg)]

\* the function component's return value, lines 700-718
render(isLoading, err, rows, stat, agg, demo) ==
    IF isLoading THEN LoaderShown
    ELSE IF ~IsNull(err) THEN ErrorShown(err)
    ELSE Report(stat, agg, demo, rows)

----------------------------------------------------------------------------
(* fetchData, lines 41-80 *)

Digits == << "0", "1", "2", "3", "4", "5", "6", "7", "8", "9" >>

IsDigit(c) == c \in Range(Digits)

DigitValue(c) == (CHOOSE i \in 1..10 : Digits[i] = c) - 1

\* the match of /^\d+/: the leading run of digits
RECURSIVE LeadingDigits(_)
LeadingDigits(chars) ==
    IF Len(chars) = 0 \/ ~IsDigit(Head(chars)) THEN << >>
    ELSE << Head(chars) >> \o LeadingDigits(Tail(chars))

\* parseInt(digits, 10)
RECURSIVE parseInt(_, _)
parseInt(digits, acc) ==
    IF Len(digits) = 0 THEN acc
    ELSE parseInt(Tail(digits), 10 * acc + DigitValue(Head(digits)))

\* lines 60-66, for one attempt field
cleanAttempt(v) ==
    IF Truthy(v) /\ v.t = "str" /\ Len(LeadingDigits(v.s)) > 0
    THEN Num(parseInt(LeadingDigits(v.s), 0))
    ELSE v

\* lines 56-68 with the clean-up applied to every column
cleanRow_EveryField(r) == [f \in DOMAIN r |-> cleanAttempt(r[f])]

\* lines 56-68, for one row
cleanRow(r) ==
    [f \in DOMAIN r |-> IF f \in Range(attemptFields) THEN cleanAttempt(r[f]) ELSE r[f]]

ErrorLoadingData == Some("Error loading data")

\* lines 70-76 with a catch block that leaves error as it is
analysisOutcome_FailureSwallowed(rows) ==
    LET t1   == analysisThrows(rows)
        t2   == ~t1 /\ calculateAggregateScoresThrows(rows)
        t3   == ~t1 /\ ~t2 /\ calculateDemographicBreakdownThrows(rows)
    IN  [data |-> rows,
         statisticalResults |-> IF t1 THEN NULL ELSE Some(analysisResults(rows)),
         aggregateScores |->
             IF t1 \/ t2 THEN NULL ELSE Some(calculateAggregateScores(rows)),
         demographicBreakdown |->
             IF t1 \/ t2 \/ t3 THEN NULL
             ELSE Some(calculateDemographicBreakdown(rows)),
         error |-> NULL,
         loading |-> FALSE]

\* the state left by lines 70-76 for the cleaned rows
analysisOutcome(rows) ==
    LET t1   == analysisThrows(rows)
        t2   == ~t1 /\ calculateAggregateScoresThrows(rows)
        t3   == ~t1 /\ ~t2 /\ calculateDemographicBreakdownThrows(rows)
    IN  [data |-> rows,
         statisticalResults |-> IF t1 THEN NULL ELSE Some(analysisResults(rows)),
         aggregateScores |->
             IF t1 \/ t2 THEN NULL ELSE Some(calculateAggregateScores(rows)),
         demographicBreakdown |->
             IF t1 \/ t2 \/ t3 THEN NULL
             ELSE Some(calculateDemographicBreakdown(rows)),
         error |-> IF t1 \/ t2 \/ t3 THEN ErrorLoadingData ELSE NULL,
         loading |-> FALSE]

\* the state left by lines 55-76 once the text has been parsed into raw rows
fetchDataOutcome(raw) == analysisOutcome(MapSeq(raw, cleanRow))

----------------------------------------------------------------------------
(* The clean-up of the attempt fields on its own, lines 55-68 *)

\* longest text held by the field that is varied
MaxChars == 3

\* number of times the clean-up is applied in a row
MaxPasses == 2

CleanChars == { "0", "2", "7", " ", "x" }

\* the texts of at most MaxChars characters
CleanTexts == UNION { [1..n -> CleanChars] : n \in 0..MaxChars }

\* what PapaParse with dynamicTyping may leave in a cell
CleanValues == { Null, Num(0), Num(3) } \cup { Str(chars) : chars \in CleanTexts }

\* a row whose attempt field f holds v and whose other attempt fields hold
\* other; an age range, a rating and a rank that begin with digits
CleanInput(f, v, other) ==
    RowWith([g \in Range(attemptFields) |-> IF g = f THEN v ELSE other]
            @@ ("Age Range" :> Str(<< "1", "8", "-", "2", "4" >>))
            @@ ("Comfort" :> Str(<< "4", " ", "x" >>))
            @@ (RankField("Curved Handle") :> Str(<< "2", "x" >>)))

InitClean ==
    /\ ComponentIdle
    /\ arr1 = << >>
    /\ arr2 = << >>
    /\ cmp = NULL
    /\ \E f \in Range(attemptFields), v \in CleanValues,
          other \in { Null, Num(2), Str(<< "2", "x" >>) } :
           row = Some(CleanInput(f, v, other))
    /\ scored = NULL
    /\ cleaned = << >>
    /\ LabelIdle

\* the forEach of lines 56-68 applied to the row, or to its own result
Clean ==
    /\ Len(cleaned) < MaxPasses
    /\ cleaned' = Append(cleaned, cleanRow(IF Len(cleaned) = 0 THEN row[1]
                                           ELSE cleaned[Len(cleaned)]))
    /\ UNCHANGED << row, scored >>
    /\ UNCHANGED componentVars
    /\ UNCHANGED statsVars
    /\ UNCHANGED labelVars

NextClean == Clean

SpecClean == InitClean /\ [][NextClean]_vars

----------------------------------------------------------------------------
(* The component: one fetch, then the analysis, then tab navigation *)

\* an opaque piece of text
Text(word) == Str(<< word >>)

\* the seven columns of one handle in the order of MetricColumns
Answers(sfx, values) ==
    [f \in { MetricColumns[m] \o sfx : m \in 1..7 } |->
        values[CHOOSE m \in 1..7 : f = MetricColumns[m] \o sfx]]

Ranks(rect, curved, circle) ==
    (RankField("Rectangle Handle") :> rect)
    @@ (RankField("Curved Handle") :> curved)
    @@ (RankField("Circle Undergrip Handle") :> circle)

Demographics(age, gender, hand) ==
    ("Age Range" :> age) @@ ("  Gender  " :> gender)
    @@ ("  Hand Dominance  " :> hand)

N(tuple) == [i \in 1..Len(tuple) |-> Num(tuple[i])]

\* Parsed rows the fetch may deliver.  The first three are the participants
\* of the end-to-end scenario (accuracy 4,5,3 / 2,3,2 / 5,5,4).
ParticipantA ==
    RowWith((ParticipantIdField :> Num(1))
            @@ Answers("", N(<< 4, 1, 4, 4, 4, 4, 4 >>))
            @@ Answers("_1", N(<< 2, 3, 2, 3, 2, 3, 2 >>))
            @@ Answers("_2", N(<< 5, 1, 5, 4, 5, 4, 5 >>))
            @@ Ranks(Num(2), Num(3), Num(1))
            @@ Demographics(Text("18-24"), Text("Female"), Text("Right")))

ParticipantB ==
    RowWith((ParticipantIdField :> Num(2))
            @@ Answers("", N(<< 5, 1, 5, 4, 5, 5, 5 >>))
            @@ Answers("_1", N(<< 3, 2, 3, 3, 3, 2, 3 >>))
            @@ Answers("_2", N(<< 5, 2, 4, 5, 4, 4, 4 >>))
            @@ Ranks(Num(1), Num(3), Num(2))
            @@ Demographics(Text("18-24"), Text("Male"), Text("Right")))

\* the attempts of the Rectangle handle carry a comment: "2 x"
ParticipantC ==
    RowWith((ParticipantIdField :> Num(3))
            @@ Answers("", << Num(3), Str(<< "2", " ", "x" >>), Num(3), Num(4),
                              Num(3), Num(3), Num(3) >>)
            @@ Answers("_1", N(<< 2, 4, 2, 2, 3, 2, 2 >>))
            @@ Answers("_2", N(<< 4, 0, 5, 5, 4, 5, 5 >>))
            @@ Ranks(Num(2), Num(3), Num(1))
            @@ Demographics(Text("25-34"), Text("Female"), Text("Left")))

\* answered for Rectangle and Curved only, gave no ranking and no id
ParticipantD ==
    RowWith(Answers("", N(<< 2, 5, 2, 2, 2, 2, 2 >>))
            @@ Answers("_1", N(<< 5, 1, 5, 5, 5, 5, 5 >>))
            @@ Demographics(Text("25-34"), Text("Other"), Text("Right")))

\* ranked the handles without rating them and left the demographics blank
ParticipantE ==
    RowWith((ParticipantIdField :> Num(5))
            @@ Ranks(Num(3), Num(1), Num(2)))

\* the attempts of the Circle handle are text without a leading digit
ParticipantF ==
    RowWith((ParticipantIdField :> Num(6))
            @@ Answers("", N(<< 4, 2, 4, 4, 4, 4, 4 >>))
            @@ Answers("_1", N(<< 4, 2, 4, 4, 4, 4, 4 >>))
            @@ Answers("_2", << Num(3), Str(<< "x" >>), Num(3), Num(3), Num(3),
                                Num(3), Num(3) >>)
            @@ Ranks(Num(1), Num(2), Num(3))
            @@ Demographics(Text("18-24"), Text("Male"), Text("Left")))

\* identical answers for Rectangle and Circle; no grip rating for Curved
ParticipantG ==
    RowWith((ParticipantIdField :> Num(7))
            @@ Answers("", N(<< 3, 2, 3, 3, 3, 3, 3 >>))
            @@ Answers("_1", << Num(3), Num(2), Num(3), Null, Num(3), Num(3),
                                Num(3) >>)
            @@ Answers("_2", N(<< 3, 2, 3, 3, 3, 3, 3 >>))
            @@ Ranks(Num(1), Num(2), Num(3))
            @@ Demographics(Text("25-34"), Text("Male"), Text("Right")))

ParsedRows ==
    { ParticipantA, ParticipantB, ParticipantC, ParticipantD, ParticipantE,
      ParticipantF, ParticipantG }

\* Papa.parse(text).data: any sequence of at most MaxRows rows
ParsedData == UNION { [1..n -> ParsedRows] : n \in 0..MaxRows }

\* the parsed data after the clean-up of lines 55-68
CleanedData ==
    UNION { [1..n -> { cleanRow(r) : r \in ParsedRows }] : n \in 0..MaxRows }

Tabs ==
    { "overview", "insights", "stats", "metrics", "attributes", "feedback",
      "demographics" }

Init ==
    /\ ComponentIdle
    /\ arr1 = << >>
    /\ arr2 = << >>
    /\ cmp = NULL
    /\ row = NULL
    /\ scored = NULL
    /\ cleaned = << >>
    /\ LabelIdle

\* the effect of lines 41-80 runs once after the first render (its
\* dependency list is empty) and calls fetch, line 45
Mount ==
    /\ fetchState = "idle"
    /\ fetchState' = "pending"
    /\ fetches' = fetches + 1
    /\ UNCHANGED << data, loading, error, tab, statisticalResults,
                    aggregateScores, demographicBreakdown, view >>
    /\ UNCHANGED statsVars
    /\ UNCHANGED scoreVars
    /\ UNCHANGED labelVars

\* loading is switched off as soon as the request is answered
FetchResponds_StopsLoading ==
    /\ fetchState = "pending"
    /\ fetchState' = "reading"
    /\ loading' = FALSE
    /\ UNCHANGED << data, error, tab, statisticalResults, aggregateScores,
                    demographicBreakdown, fetches >>
    /\ view' = render(loading', error', data', statisticalResults',
                      aggregateScores', demographicBreakdown')
    /\ UNCHANGED statsVars
    /\ UNCHANGED scoreVars
    /\ UNCHANGED labelVars

\* await fetch(...) resolves, line 45
FetchResponds ==
    /\ fetchState = "pending"
    /\ fetchState' = "reading"
    /\ UNCHANGED << data, loading, error, tab, statisticalResults,
                    aggregateScores, demographicBreakdown, fetches, view >>
    /\ UNCHANGED statsVars
    /\ UNCHANGED scoreVars
    /\ UNCHANGED labelVars

\* a rejected request is issued again
FetchRejects_Retry ==
    /\ fetchState \in { "pending", "reading" }
    /\ fetches < 2
    /\ fetchState' = "pending"
    /\ fetches' = fetches + 1
    /\ UNCHANGED << data, loading, error, tab, statisticalResults,
                    aggregateScores, demographicBreakdown, view >>
    /\ UNCHANGED statsVars
    /\ UNCHANGED scoreVars
    /\ UNCHANGED labelVars

\* fetch or response.text() rejects: the catch block, lines 73-76
FetchRejects ==
    /\ fetchState \in { "pending", "reading" }
    /\ fetchState' = "failed"
    /\ error' = ErrorLoadingData
    /\ loading' = FALSE
    /\ UNCHANGED << data, tab, statisticalResults, aggregateScores,
                    demographicBreakdown, fetches >>
    /\ view' = render(loading', error', data', statisticalResults',
                      aggregateScores', demographicBreakdown')
    /\ UNCHANGED statsVars
    /\ UNCHANGED scoreVars
    /\ UNCHANGED labelVars

\* lines 46-76 without the setLoading(false) of lines 74 and 76
TextResolves_KeepsLoading ==
    /\ fetchState = "reading"
    /\ data' \in CleanedData
    /\ \E out \in { analysisOutcome(data') } :
          /\ statisticalResults' = out.statisticalResults
          /\ aggregateScores' = out.aggregateScores
          /\ demographicBreakdown' = out.demographicBreakdown
          /\ error' = out.error
          /\ loading' = TRUE
    /\ fetchState' = "done"
    /\ view' = render(loading', error', data', statisticalResults',
                      aggregateScores', demographicBreakdown')
    /\ UNCHANGED << tab, fetches >>
    /\ UNCHANGED statsVars
    /\ UNCHANGED scoreVars
    /\ UNCHANGED labelVars

\* await response.text() resolves: the text is parsed and cleaned (lines
\* 46-68) and lines 70-76 run to the end
TextResolves ==
    /\ fetchState = "reading"
    /\ data' \in CleanedData
    /\ \E out \in { analysisOutcome(data') } :
          /\ statisticalResults' = out.statisticalResults
          /\ aggregateScores' = out.aggregateScores
          /\ demographicBreakdown' = out.demographicBreakdown
          /\ error' = out.error
          /\ loading' = out.loading
    /\ fetchState' = "done"
    /\ view' = render(loading', error', data', statisticalResults',
                      aggregateScores', demographicBreakdown')
    /\ UNCHANGED << tab, fetches >>
    /\ UNCHANGED statsVars
    /\ UNCHANGED scoreVars
    /\ UNCHANGED labelVars

\* a tab button, lines 727-763; the buttons exist while the report is shown
SetTab ==
    /\ view.kind = "report"
    /\ \E t \in Tabs : tab' = t
    /\ UNCHANGED << data, loading, error, statisticalResults, aggregateScores,
                    demographicBreakdown, fetchState, fetches >>
    /\ view' = render(loading', error', data', statisticalResults',
                      aggregateScores', demographicBreakdown')
    /\ UNCHANGED statsVars
    /\ UNCHANGED scoreVars
    /\ UNCHANGED labelVars

Next == Mount \/ FetchResponds \/ FetchRejects \/ TextResolves \/ SetTab

Spec == Init /\ [][Next]_vars

\* React runs the effect after the first commit, and each of the two promises
\* awaited by fetchData is eventually settled
Fairness ==
    /\ WF_vars(Mount)
    /\ WF_vars(FetchResponds \/ FetchRejects \/ TextResolves)

SpecLive == Init /\ [][Next]_vars /\ Fairness

----------------------------------------------------------------------------
(* The values a render derives, on their own: findSignificantDifferences,  *)
(* generateInsights and bestHandle applied to every state that a load can  *)
(* leave, for surveys more varied than those of Spec                       *)

Repeat(v, n) == [i \in 1..n |-> Num(v)]

\* the answers of the participants to one question, in row order: half 2
\* and half 4; eleven 2 and the others 4; three answers only; all 3
ColumnPatterns ==
    << Repeat(2, 20) \o Repeat(4, 20),
       Repeat(2, 11) \o Repeat(4, 29),
       << Num(3), Num(4), Num(4) >>,
       Repeat(3, 40) >>

SurveyRows == Len(ColumnPatterns[1])

\* the answer of participant i in a column, empty past its end
AnswerAt(col, i) == IF i <= Len(col) THEN col[i] ELSE Null

\* a survey whose metric m has the column patterns p[1], p[2], p[3] for the
\* three handles, every other column following the first pattern
Survey(m, p) ==
    [i \in 1..SurveyRows |->
        RowWith([f \in { MetricColumns[k] \o Suffixes[h] : k \in 1..7, h \in 1..3 } |->
                    LET kh == CHOOSE kh \in (1..7) \X (1..3) :
                                  f = MetricColumns[kh[1]] \o Suffixes[kh[2]]
                    IN  AnswerAt(ColumnPatterns[IF kh[1] = m THEN p[kh[2]]
                                                ELSE 1], i)])]

\* the patterns given to the three handles of the metric that is varied:
\* no contrast at all, and contrasts that set the two signals of a pair apart
Contrasts ==
    { << 1, 1, 1 >>, << 1, 2, 3 >>, << 2, 4, 1 >>, << 4, 3, 4 >>, << 3, 1, 2 >> }

\* one participant who gives each handle one level for its six ratings
UniformRow(lvl, att) ==
    RowWith(HandleColumns("", att[1], [n \in RatingNames |-> lvl[1]])
            @@ HandleColumns("_1", att[2], [n \in RatingNames |-> lvl[2]])
            @@ HandleColumns("_2", att[3], [n \in RatingNames |-> lvl[3]]))

UniformLevels == { Null, Num(2), Num(4) }

UniformAttempts == { Null, Num(1), Num(7) }

\* a participant of the given age range, if stated, who rated all handles and
\* gave the Rectangle handle the given rank, if any, and the others rank 3
GroupedRow(age, rank) ==
    RowWith(Answers("", N(<< 4, 1, 4, 4, 4, 4, 4 >>))
            @@ Answers("_1", N(<< 2, 3, 2, 3, 2, 3, 2 >>))
            @@ Answers("_2", N(<< 5, 1, 5, 4, 5, 4, 5 >>))
            @@ Ranks(rank, Num(3), Num(3))
            @@ Demographics(age, Text("Female"), Null))

GroupedRows ==
    { GroupedRow(age, rank) : age \in { Text("18-24"), Text("25-34") },
                              rank \in { Null, Num(1), Num(2) } }
    \cup { GroupedRow(Null, Num(1)) }

\* largest number of rows in a dataset of SpecReport built from ParsedRows
MaxGroupRows == 2

\* largest number of rows in a dataset of SpecReport built from GroupedRows
MaxGroupedRows == 3

\* lines 46-76 run to the end for the parsed rows raw
LoadedFrom(raw) ==
    \E out \in { fetchDataOutcome(raw) } :
        /\ data' = out.data
        /\ statisticalResults' = out.statisticalResults
        /\ aggregateScores' = out.aggregateScores
        /\ demographicBreakdown' = out.demographicBreakdown
        /\ error' = out.error
        /\ loading' = out.loading
        /\ fetchState' = "done"

\* the component waiting for the text of the response
InitReport ==
    /\ data = << >>
    /\ loading = TRUE
    /\ error = NULL
    /\ tab = "overview"
    /\ statisticalResults = NULL
    /\ aggregateScores = NULL
    /\ demographicBreakdown = NULL
    /\ fetchState = "reading"
    /\ fetches = 1
    /\ view = LoaderShown
    /\ arr1 = << >>
    /\ arr2 = << >>
    /\ cmp = NULL
    /\ row = NULL
    /\ scored = NULL
    /\ cleaned = << >>
    /\ LabelIdle

\* await response.text() resolves, as TextResolves, with one of the surveys
\* above; the component has not rendered again yet
LoadSurvey ==
    /\ fetchState = "reading"
    /\ view = LoaderShown
    /\ \/ \E m \in 1..7, p \in Contrasts : LoadedFrom(Survey(m, p))
       \/ \E lvl \in [1..3 -> UniformLevels],
             att \in [1..3 -> UniformAttempts] :
              LoadedFrom(<< UniformRow(lvl, att) >>)
       \/ \E n \in 0..MaxGroupRows : \E raw \in [1..n -> ParsedRows] :
              LoadedFrom(raw)
       \/ \E n \in 1..MaxGroupedRows : \E raw \in [1..n -> GroupedRows] :
              LoadedFrom(raw)
    /\ UNCHANGED << tab, fetches, view >>
    /\ UNCHANGED statsVars
    /\ UNCHANGED scoreVars
    /\ UNCHANGED labelVars

\* lines 711-718 evaluated in the state as it is
DeriveReport ==
    /\ view = LoaderShown
    /\ view' = Report(statisticalResults, aggregateScores, demographicBreakdown,
                      data)
    /\ UNCHANGED << data, loading, error, tab, statisticalResults,
                    aggregateScores, demographicBreakdown, fetchState, fetches >>
    /\ UNCHANGED statsVars
    /\ UNCHANGED scoreVars
    /\ UNCHANGED labelVars

NextReport == LoadSurvey \/ DeriveReport

SpecReport == InitReport /\ [][NextReport]_vars

----------------------------------------------------------------------------
(* Reference formulas used by the properties below.  They are written from *)
(* the raw power sums, not from the deviations the library computes.       *)

RECURSIVE SumOfSquares(_)
SumOfSquares(arr) ==
    IF Len(arr) = 0 THEN 0
    ELSE Head(arr).n * Head(arr).n + SumOfSquares(Tail(arr))

\* n * sum(x^2) - (sum x)^2  =  n * (sum of squared deviations)
ScaledSpread(arr) == Len(arr) * SumOfSquares(arr) - Sum(arr) * Sum(arr)

\* divisor n
PopulationVariance(arr) == Rat(ScaledSpread(arr), Len(arr) * Len(arr))

\* divisor n - 1; a single observation has variance 0
SampleVariance(arr) ==
    IF Len(arr) = 1 THEN RZero
    ELSE Rat(ScaledSpread(arr), Len(arr) * (Len(arr) - 1))

ArithmeticMean(arr) == Rat(Sum(arr), Len(arr))

\* t is (m1 - m2) / sqrt(v1/n1 + v2/n2), the division done as IEEE does it
IsWelchT(t, a, b, v1, v2) ==
    LET diff == RSub(ArithmeticMean(a), ArithmeticMean(b))
        rad  == RAdd(RDiv(v1, RInt(Len(a))), RDiv(v2, RInt(Len(b))))
    IN  IF rad.num # 0
        THEN /\ t.k = "finite"
             /\ t.sign = RSign(diff)
             /\ RMul(t.sq, rad) = RMul(diff, diff)
        ELSE IF diff.num = 0 THEN t.k = "nan"
             ELSE t.k = "infinite" /\ t.sign = RSign(diff)

Sample453 == << Num(4), Num(5), Num(3) >>

Sample232 == << Num(2), Num(3), Num(2) >>

Analysed == cmp # NULL

Result == cmp[1]

----------------------------------------------------------------------------
(* Properties of the pure statistics functions, checked under SpecStats *)

\* C3 (as claimed): for every pair of samples, single-observation and
\* constant samples included, the effect size returned by cohenD is a number
\* that is greater than or equal to 0.
C3_EffectSizeIsNonNegativeNumber ==
    Analysed =>
        /\ Result.comparison.effectSize.k # "nan"
        /\ Result.comparison.effectSize.sign >= 0

\* C4 (as claimed): when either sample has no or one observation, cohenD
\* returns exactly 0, never the result of 0/0 or x/0.
C4_DegenerateSampleGivesZero ==
    (Analysed /\ (Len(arr1) <= 1 \/ Len(arr2) <= 1)) =>
        Result.comparison.effectSize = Finite(0, RZero)

C7_TUsesPopulationVariance ==
    (Analysed /\ Len(arr1) >= 1 /\ Len(arr2) >= 1) =>
        IsWelchT(Result.comparison.tValue, arr1, arr2,
                 PopulationVariance(arr1), PopulationVariance(arr2))

\* C7 (amended): for non-empty samples t = (mean1 - mean2) /
\* sqrt(var1/n1 + var2/n2) with the sample variances (divisor n - 1, and 0
\* for a single observation), the division evaluated as IEEE does.
C7_TUsesSampleVariance ==
    (Analysed /\ Len(arr1) >= 1 /\ Len(arr2) >= 1) =>
        IsWelchT(Result.comparison.tValue, arr1, arr2,
                 SampleVariance(arr1), SampleVariance(arr2))

\* [4,5,3] against [2,3,2]: t = (5/3) / sqrt(1/3 + 1/9) = 2.5
C7_Witness ==
    /\ Analysed
    /\ arr1 = Sample453
    /\ arr2 = Sample232
    /\ Result.comparison.tValue = Finite(1, Rat(25, 4))

\* C10: calculateCI returns [0, 0] for n <= 1; for n >= 2 it returns
\* [mean - m, mean + m] with the one margin m = 1.96 * stdDev / sqrt(n), so
\* the interval is symmetric about the mean and low <= mean <= high.
C10_ConfidenceInterval ==
    Analysed =>
        \A g \in { Result.first, Result.second } :
            /\ g.n <= 1 => g.ci = << ZeroBound, ZeroBound >>
            /\ g.n >= 2 =>
                  /\ g.ci[1].k = "finite" /\ g.ci[2].k = "finite"
                  /\ g.ci[1].base = g.mean /\ g.ci[2].base = g.mean
                  /\ g.ci[1].sq = g.ci[2].sq
                  /\ RMul(g.ci[1].sq, Rat(10000 * g.n, 1))
                        = RMul(Rat(Z95 * Z95, 1), g.stdDev.sq)
                  /\ g.ci[1].sign <= 0 /\ g.ci[2].sign = - g.ci[1].sign
                  /\ (g.stdDev.sq.num # 0 => g.ci[1].sign = -1)

C10_Witness ==
    /\ Analysed
    /\ Result.first.n >= 2
    /\ Result.first.ci[1].sign = -1
    /\ Result.first.ci[2].sign = 1
    /\ Result.second.n = 1
    /\ Result.second.mean.num # 0
    /\ Result.second.ci = << ZeroBound, ZeroBound >>

----------------------------------------------------------------------------
(* Properties of the aggregate scorer, checked under SpecScore *)

Scored == scored # NULL

TheRow == row[1]

TheScore == scored[1]

ValueOrZero(v) == IF Present(v) THEN v.n ELSE 0

\* (1.5*Accuracy + 1.0*(5 - attempts) + 1.2*Comfort + 1.0*GripSecurity
\*  + 1.0*EaseOfUse + 0.8*Intuitiveness + 1.5*Satisfaction) / 8.0, a missing
\* value counting 0 and the inversion applied whenever attempts is present
ClaimedScore(r, sfx) ==
    LET att == r["Number of Attempts" \o sfx]
    IN  Rat( 15 * ValueOrZero(r["Positioning Accuracy" \o sfx])
           + 10 * (IF Present(att) THEN 5 - att.n ELSE 0)
           + 12 * ValueOrZero(r["Comfort" \o sfx])
           + 10 * ValueOrZero(r["Grip Security" \o sfx])
           + 10 * ValueOrZero(r["Ease of Use" \o sfx])
           +  8 * ValueOrZero(r["Intuitiveness " \o sfx])
           + 15 * ValueOrZero(r["Overall Satisfaction" \o sfx]),
           80)

AllFiveNoAttempts(r, sfx) ==
    /\ \A n \in RatingNames : r[n \o sfx] = Num(5)
    /\ r["Number of Attempts" \o sfx] = Num(0)

\* C1 (as claimed): every handle's aggregate score is the weighted sum over
\* 8.0 with a missing sub-metric counting 0 and InvertedAttempts = 5 - attempts
\* whenever an attempts value is present, attempts = 0 included; a row with
\* all sub-metrics 5 and attempts 0 scores exactly 5.
C1_ScoreInvertsEveryPresentAttempts ==
    Scored =>
        /\ TheScore.rectangleScore = ClaimedScore(TheRow, "")
        /\ TheScore.curvedScore = ClaimedScore(TheRow, "_1")
        /\ TheScore.circleScore = ClaimedScore(TheRow, "_2")
        /\ (AllFiveNoAttempts(TheRow, "") => TheScore.rectangleScore = RInt(5))

\* C2: topChoice is a handle whose score is the maximum of the row's three
\* scores; among several handles at the maximum Rectangle is chosen before
\* Curved and Curved before Circle, so Rectangle = Curved > Circle gives
\* 'Rectangle Handle'.
C2_TopChoiceIsFirstMaximum ==
    Scored =>
        LET rect   == TheScore.rectangleScore
            curved == TheScore.curvedScore
            circle == TheScore.circleScore
        IN  /\ TheScore.topChoice \in Range(handleTypes)
            /\ TheScore.topChoice = "Rectangle Handle" <=>
                  (RLeq(curved, rect) /\ RLeq(circle, rect))
            /\ TheScore.topChoice = "Curved Handle" <=>
                  (RLess(rect, curved) /\ RLeq(circle, curved))
            /\ TheScore.topChoice = "Circle Undergrip Handle" <=>
                  (RLess(rect, circle) /\ RLess(curved, circle))

C2_Witness ==
    /\ Scored
    /\ TheScore.rectangleScore = TheScore.curvedScore
    /\ RLess(TheScore.circleScore, TheScore.rectangleScore)
    /\ TheScore.topChoice = "Rectangle Handle"

----------------------------------------------------------------------------
(* Properties of the whole pipeline, checked under Spec *)

Sample554 == << Num(5), Num(5), Num(4) >>

HandleKeys == { "rectangle", "curved", "circle" }

SuffixOf(key) ==
    CASE key = "rectangle" -> ""
      [] key = "curved" -> "_1"
      [] key = "circle" -> "_2"

EmptyStat ==
    [mean |-> RZero, stdDev |-> ZeroStd, ci |-> << ZeroBound, ZeroBound >>,
     n |-> 0]

\* C5 (as claimed): the statistics pipeline is total; whatever rows the parser
\* delivers (no rows at all, rows whose Circle scores are all 0, a demographic
\* group without a rank for some handle), runStatisticalAnalysis returns
\* normally and nothing reaches the catch block of fetchData.
C5_PipelineIsTotal ==
    fetchState = "done" =>
        /\ error = NULL
        /\ statisticalResults # NULL
        /\ aggregateScores # NULL
        /\ demographicBreakdown # NULL

EndToEndScenario ==
    /\ statisticalResults # NULL
    /\ column(data, "Positioning Accuracy") = Sample453
    /\ column(data, "Positioning Accuracy_1") = Sample232
    /\ column(data, "Positioning Accuracy_2") = Sample554

\* C8: with Rectangle = [4,5,3], Curved = [2,3,2], Circle = [5,5,4] the
\* Rectangle-vs-Curved comparison of Positioning Accuracy has an effect size
\* above 0.8 and the interpretation 'Large'.
C8_ScenarioEffectIsLarge ==
    EndToEndScenario =>
        LET c == statisticalResults[1][1].comparisons.rectVsCurved
        IN  /\ statisticalResults[1][1].metric = "Positioning Accuracy"
            /\ c.effectSize.k = "finite"
            /\ c.effectSize.sign = 1
            /\ RLess(Rat(64, 100), c.effectSize.sq)
            /\ c.interpretation = "Large"

\* d = (5/3) / sqrt(2/3), d^2 = 25/6
C8_Witness ==
    /\ EndToEndScenario
    /\ statisticalResults[1][1].comparisons.rectVsCurved.effectSize
          = Finite(1, Rat(25, 6))
    /\ statisticalResults[1][1].comparisons.rectVsCurved.interpretation = "Large"

\* C9: a (metric, handle) group whose filtered sample is empty is reported as
\* mean = 0, stdDev = 0, n = 0 and ci = [0, 0].
C9_EmptySampleStat ==
    statisticalResults # NULL =>
        \A m \in 1..7, key \in HandleKeys :
            column(data, MetricColumns[m] \o SuffixOf(key)) = << >> =>
                statisticalResults[1][m][key] = EmptyStat

\* a report in which nobody rated the grip security of the Curved handle
C9_Witness ==
    /\ statisticalResults # NULL
    /\ error = NULL
    /\ Len(data) > 0
    /\ column(data, "Grip Security_1") = << >>
    /\ column(data, "Grip Security") # << >>
    /\ statisticalResults[1][4].curved = EmptyStat
    /\ statisticalResults[1][4].rectangle.n > 0

----------------------------------------------------------------------------
(* The label of an effect size *)

EffectLabels == { "Negligible", "Small", "Medium", "Large" }

\* the effect size k/100 has been labelled as label
LabelOf(k, label) == dIn = Some(Hundredths(k)) /\ labelled = Some(label)

\* C11: the label is a step function of d with inclusive lower bounds:
\* below 0.2 Negligible, from 0.2 and below 0.5 Small, from 0.5 and below 0.8
\* Medium, from 0.8 on Large (so 0.19 is Negligible, 0.2 and 0.49 Small, 0.5
\* and 0.79 Medium, 0.8 Large), and it is always one of these four labels
C11_LabelIsStepFunction ==
    ~IsNull(labelled) =>
        /\ labelled[1] \in EffectLabels
        /\ \A k \in (0 - MaxHundredths)..MaxHundredths :
              dIn = Some(Hundredths(k)) =>
                  /\ k < 20 => labelled[1] = "Negligible"
                  /\ (20 <= k /\ k < 50) => labelled[1] = "Small"
                  /\ (50 <= k /\ k < 80) => labelled[1] = "Medium"
                  /\ 80 <= k => labelled[1] = "Large"
        /\ dIn = Some(Hundredths(19)) => labelled[1] = "Negligible"
        /\ dIn = Some(Hundredths(20)) => labelled[1] = "Small"
        /\ dIn = Some(Hundredths(49)) => labelled[1] = "Small"
        /\ dIn = Some(Hundredths(50)) => labelled[1] = "Medium"
        /\ dIn = Some(Hundredths(79)) => labelled[1] = "Medium"
        /\ dIn = Some(Hundredths(80)) => labelled[1] = "Large"
        /\ dIn = Some(Infinite(1)) => labelled[1] = "Large"

\* an effect size of exactly 0.5 has been labelled Medium
C11_Witness == LabelOf(50, "Medium")

----------------------------------------------------------------------------
(* The p-value bucket of a comparison *)

PValueBuckets == { "< 0.01", "< 0.05", "> 0.05" }

\* C12: the bucket tTest returns depends only on |t|, with strict
\* thresholds: |t| > 2.7 gives "< 0.01", 2.0 < |t| <= 2.7 gives "< 0.05",
\* and |t| <= 2.0 gives "> 0.05", |t| = 2.0 exactly and the t = 0 of an
\* empty sample included.  (t is known by its square: |t| > 2.7 is
\* 100 t^2 > 729 and |t| > 2 is t^2 > 4.)
C12_BucketFollowsAbsT ==
    Analysed =>
        LET t      == Result.comparison.tValue
            bucket == Result.comparison.pValue
        IN  /\ bucket \in PValueBuckets
            /\ t.k = "infinite" => bucket = "< 0.01"
            /\ t.k = "finite" =>
                  /\ 100 * t.sq.num > 729 * t.sq.den => bucket = "< 0.01"
                  /\ (t.sq.num > 4 * t.sq.den
                      /\ 100 * t.sq.num <= 729 * t.sq.den) => bucket = "< 0.05"
                  /\ t.sq.num <= 4 * t.sq.den => bucket = "> 0.05"
            /\ (Len(arr1) = 0 \/ Len(arr2) = 0) =>
                  (t = Finite(0, RZero) /\ bucket = "> 0.05")

\* [2, 4] against [5, 5]: t = (3 - 5) / sqrt(2/2 + 0/2) = -2 exactly, and the
\* bucket is "> 0.05"
C12_Witness ==
    /\ Analysed
    /\ arr1 = << Num(2), Num(4) >>
    /\ arr2 = << Num(5), Num(5) >>
    /\ Result.comparison.tValue = Finite(-1, RInt(4))
    /\ Result.comparison.pValue = "> 0.05"

----------------------------------------------------------------------------
(* Properties of the derived values, checked under SpecReport *)

\* the report has been derived without an exception
Derived == view.kind = "report"

PairNames == << "Rectangle vs Curved", "Rectangle vs Circle", "Curved vs Circle" >>

\* the comparison of the pair with the given index in one metric's result
PairOf(result, pair) ==
    CASE pair = 1 -> result.comparisons.rectVsCurved
      [] pair = 2 -> result.comparisons.rectVsCircle
      [] pair = 3 -> result.comparisons.curvedVsCircle

\* the positions of the entries returned for a metric and a pair
EntriesFor(metric, pair) ==
    { i \in 1..Len(view.significantDifferences) :
        /\ view.significantDifferences[i].metricName = MetricNames[metric]
        /\ view.significantDifferences[i].comparison = PairNames[pair] }

Significant(c) == c.pValue = "< 0.05" \/ c.pValue = "< 0.01"

Sizeable(c) == c.interpretation = "Medium" \/ c.interpretation = "Large"

\* C13: findSignificantDifferences returns an entry for a metric and a pair
\* of handles exactly when the pair's p-value bucket is "< 0.05" or "< 0.01"
\* or its effect label is Medium or Large; either signal alone is enough
C13_EntryIffSignificantOrSizeable ==
    (Derived /\ ~IsNull(statisticalResults)) =>
        \A metric \in 1..7, pair \in 1..3 :
            LET c == PairOf(statisticalResults[1][metric], pair)
            IN  /\ EntriesFor(metric, pair) # {} <=> (Significant(c) \/ Sizeable(c))
                /\ Cardinality(EntriesFor(metric, pair)) <= 1

\* one report holds an entry flagged by its p-value alone (effect Small), one
\* flagged by its effect size alone (p-value "> 0.05"), and a pair of the same
\* metric with neither signal has no entry
C13_Witness ==
    /\ Derived
    /\ ~IsNull(statisticalResults)
    /\ \E i \in 1..Len(view.significantDifferences) :
          /\ view.significantDifferences[i].pValue = "< 0.05"
          /\ view.significantDifferences[i].effect = "Small"
    /\ \E i \in 1..Len(view.significantDifferences) :
          /\ view.significantDifferences[i].pValue = "> 0.05"
          /\ view.significantDifferences[i].effect = "Medium"
    /\ \E metric \in 1..7, pair \in 1..3 :
          /\ EntriesFor(metric, pair) = {}
          /\ EntriesFor(metric, 1) # {}

\* the rows of the loaded dataset whose factor column holds value
RowsOfGroup(factor, value) == { i \in 1..Len(data) : data[i][factor] = value }

\* those of them that carry a rank for the handle
RankedRowsOfGroup(factor, value, handle) ==
    { i \in RowsOfGroup(factor, value) : Truthy(data[i][RankField(handle)]) }

\* the ranks the given rows give to the handle, added up
RECURSIVE RankTotal(_, _)
RankTotal(indices, handle) ==
    IF indices = {} THEN 0
    ELSE LET i == CHOOSE j \in indices : TRUE
         IN  data[i][RankField(handle)].n + RankTotal(indices \ {i}, handle)

\* the entries of the breakdown of a factor that are filed under value
GroupEntries(factor, value) ==
    { g \in 1..Len(demographicBreakdown[1][factor]) :
        demographicBreakdown[1][factor][g].group = value }

\* C14: for every demographic factor and every distinct non-empty value of
\* it, the breakdown holds one entry whose count is the number of rows with
\* that value and whose mean rank of each handle is the arithmetic mean of the
\* ranks present in exactly those rows; an empty value gets no entry
C14_BreakdownCountsAndMeans ==
    ~IsNull(demographicBreakdown) =>
        \A f \in 1..Len(demographicFactors) :
            LET factor == demographicFactors[f]
            IN  /\ \A i \in 1..Len(data) :
                      LET value == data[i][factor]
                      IN  IF Truthy(value)
                          THEN /\ Cardinality(GroupEntries(factor, value)) = 1
                               /\ \A g \in GroupEntries(factor, value) :
                                     LET entry == demographicBreakdown[1][factor][g]
                                     IN  /\ entry.count =
                                              Cardinality(RowsOfGroup(factor, value))
                                         /\ \A h \in Range(handleTypes) :
                                               LET ranked == RankedRowsOfGroup(factor, value, h)
                                               IN  /\ ranked # {}
                                                   /\ entry.rank[h].num * Cardinality(ranked)
                                                        = entry.rank[h].den * RankTotal(ranked, h)
                          ELSE GroupEntries(factor, value) = {}
                /\ \A g \in 1..Len(demographicBreakdown[1][factor]) :
                      RowsOfGroup(factor, demographicBreakdown[1][factor][g].group) # {}

\* two age groups; one of them has two participants of whom only one ranked
\* the Rectangle handle, and its mean rank is that participant's rank
C14_Witness ==
    /\ ~IsNull(demographicBreakdown)
    /\ Len(demographicBreakdown[1]["Age Range"]) = 2
    /\ \E g \in 1..2 :
          LET entry == demographicBreakdown[1]["Age Range"][g]
          IN  /\ entry.count = 2
              /\ Cardinality(RankedRowsOfGroup("Age Range", entry.group,
                                               "Rectangle Handle")) = 1
              /\ entry.rank["Rectangle Handle"] = RInt(2)

----------------------------------------------------------------------------
(* Properties of the component's life cycle, checked under Spec *)

\* the request or the reading of its body has been rejected
FetchFailed == fetchState = "failed"

NoResults ==
    /\ IsNull(statisticalResults)
    /\ IsNull(aggregateScores)
    /\ IsNull(demographicBreakdown)

\* C15: when the fetch, or the reading of its body, fails, the component is
\* left with error set and loading false, and it stays there: no later step
\* clears error, issues the request again or runs the analysis; at most one
\* request is issued in a session
C15_FetchFailureIsTerminal ==
    /\ [](FetchFailed => (~IsNull(error) /\ ~loading /\ NoResults))
    /\ [](fetches <= 1)
    /\ [][(fetchState \in { "pending", "reading" } /\ fetchState' = "failed")
            => (~IsNull(error') /\ ~loading')]_vars
    /\ [][FetchFailed =>
            /\ FetchFailed'
            /\ error' = error
            /\ loading' = loading
            /\ fetches' = fetches
            /\ data' = data
            /\ statisticalResults' = statisticalResults
            /\ aggregateScores' = aggregateScores
            /\ demographicBreakdown' = demographicBreakdown]_vars

\* the reading of the body was rejected after the one request was answered,
\* and the error line is what the component shows
C15_Witness ==
    /\ FetchFailed
    /\ fetches = 1
    /\ error = ErrorLoadingData
    /\ ~loading
    /\ view = ErrorShown(ErrorLoadingData)

\* fetchData has not come to its end: the effect has not run yet, or one of
\* its two awaits is outstanding
FetchUnresolved == fetchState \in { "idle", "pending", "reading" }

\* C16: as long as the fetch has not resolved, loading is true, error is
\* null, data is empty and the three analysis results are null; and while
\* loading is true the component returns the loader, without computing the
\* derived projections or the insights
C16_NothingBeforeTheFetchResolves ==
    /\ FetchUnresolved =>
          /\ loading
          /\ IsNull(error)
          /\ data = << >>
          /\ NoResults
    /\ loading =>
          /\ view = LoaderShown
          /\ view.insights = << >>
          /\ view.significantDifferences = << >>

\* the request has been answered and its body is being read
C16_Witness ==
    /\ fetchState = "reading"
    /\ fetches = 1
    /\ loading
    /\ view.kind = "loading"

----------------------------------------------------------------------------
(* Properties of generateInsights, checked under SpecReport *)

\* lines 711-718 have been evaluated in the current state
Evaluated == view # LoaderShown

\* C18: generateInsights returns an empty array whenever statisticalResults,
\* aggregateScores or demographicBreakdown is null, findSignificantDifferences
\* returns an empty array whenever statisticalResults is null, and neither
\* raises an exception
C18_NullPrerequisitesGiveEmptyArrays ==
    Evaluated =>
        /\ (IsNull(statisticalResults) \/ IsNull(aggregateScores)
            \/ IsNull(demographicBreakdown)) =>
              (view.kind = "report" /\ view.insights = << >>)
        /\ IsNull(statisticalResults) =>
              (view.kind = "report" /\ view.significantDifferences = << >>)

\* the analysis and the scores are there and only the breakdown is missing:
\* differences are returned, insights are not
C18_Witness ==
    /\ Evaluated
    /\ ~IsNull(statisticalResults)
    /\ ~IsNull(aggregateScores)
    /\ IsNull(demographicBreakdown)
    /\ view.kind = "report"
    /\ view.insights = << >>
    /\ view.significantDifferences # << >>

\* the three results the insights are built from are all there
PrerequisitesPresent ==
    /\ ~IsNull(statisticalResults)
    /\ ~IsNull(aggregateScores)
    /\ ~IsNull(demographicBreakdown)

\* the keys of the insights returned, in order
InsightKeys == [i \in 1..Len(view.insights) |-> view.insights[i].key]

\* the key of the optional third insight, if a comparison is flagged
ThirdKey ==
    IF view.significantDifferences # << >> THEN << "significant-differences" >>
    ELSE << >>

\* C19: with the three prerequisites present, generateInsights returns its
\* records in the order overall-best, most-preferred, significant-differences,
\* demographic-insight, improvement-area; the first two and the last are
\* always there, the third exactly when at least one comparison is flagged,
\* and no key occurs twice
C19_InsightsInFixedOrder ==
    (Evaluated /\ PrerequisitesPresent) =>
        /\ view.kind = "report"
        /\ \/ InsightKeys = << "overall-best", "most-preferred" >> \o ThirdKey
                            \o << "improvement-area" >>
           \/ InsightKeys = << "overall-best", "most-preferred" >> \o ThirdKey
                            \o << "demographic-insight", "improvement-area" >>

\* the largest of the three mean aggregate scores is that of handle
IsMaximum(handle) ==
    /\ handle \in Range(handleTypes)
    /\ \A h \in Range(handleTypes) :
          RLeq(aggregateScores[1].average[h], aggregateScores[1].average[handle])

\* C20: for every triple of mean aggregate scores, those with no mean above 0
\* included, the overall-best insight names one of the three handles, one
\* whose mean is the largest; and so does the bestHandle helper
C20_BestHandleIsAMaximum ==
    (Evaluated /\ PrerequisitesPresent) =>
        /\ view.kind = "report"
        /\ view.insights[1].key = "overall-best"
        /\ IsMaximum(view.insights[1].handle)
        /\ IsMaximum(bestHandle(aggregateScores))

----------------------------------------------------------------------------
(* Properties of the single insights, checked under SpecReport *)

\* the insight with the given key, if the report holds one
InsightsWithKey(key) ==
    { i \in 1..Len(view.insights) : view.insights[i].key = key }

\* the three handle means of a metric
MeansOf(metric) ==
    { statisticalResults[1][metric].rectangle.mean,
      statisticalResults[1][metric].curved.mean,
      statisticalResults[1][metric].circle.mean }

\* the highest of the three handle means of a metric
HighestMean(metric) ==
    CHOOSE x \in MeansOf(metric) : \A y \in MeansOf(metric) : RLeq(y, x)

\* score is x.toFixed(1), in tenths
IsTenthsOf(score, x) == 2 * Abs(10 * x.num - score * x.den) <= x.den

\* C21: the improvement-area insight takes as each metric's champion score
\* the highest of the three handle means (also when two handles tie for it)
\* and reports the metric whose champion score is the lowest of the seven
C21_WeakestChampionIsReported ==
    (Derived /\ PrerequisitesPresent) =>
        \A i \in InsightsWithKey("improvement-area") :
            \E metric \in 1..7 :
                /\ view.insights[i].metric = MetricNames[metric]
                /\ \A other \in 1..7 :
                      RLeq(HighestMean(metric), HighestMean(other))
                /\ IsTenthsOf(view.insights[i].score, HighestMean(metric))


\* the (factor, group, handle) triples of the breakdown over the given factors
GroupHandles(factors) ==
    { fgh \in factors \X (1..Len(data)) \X Range(handleTypes) :
        fgh[2] <= Len(demographicBreakdown[1][fgh[1]]) }

\* the mean rank of a triple
MeanRankOf(fgh) == demographicBreakdown[1][fgh[1]][fgh[2]].rank[fgh[3]]

\* the insight names a triple whose mean rank is the minimum over the triples
NamesMinimumOf(insight, triples) ==
    \E fgh \in triples :
        /\ insight.group = demographicBreakdown[1][fgh[1]][fgh[2]].group
        /\ insight.handle = fgh[3]
        /\ \A other \in triples : RLeq(MeanRankOf(fgh), MeanRankOf(other))

\* the factors for which the breakdown holds at least two groups
SplitFactors ==
    { factor \in Range(demographicFactors) :
        Len(demographicBreakdown[1][factor]) > 1 }

FlaggedMetrics ==
    { metric \in 1..7 :
        \E pair \in 1..3 :
            LET c == PairOf(statisticalResults[1][metric], pair)
            IN  Significant(c) \/ Sizeable(c) }

\* the positions in details of the entries of a metric and a pair
DetailsFor(details, metric, pair) ==
    { k \in 1..Len(details) :
        /\ details[k].metricName = MetricNames[metric]
        /\ details[k].comparison = PairNames[pair] }

\* details is the list of the flagged comparisons, each once, in metric order
\* and within a metric in the order of PairNames
CompleteInOrder(details) ==
    /\ \A metric \in 1..7, pair \in 1..3 :
          LET c == PairOf(statisticalResults[1][metric], pair)
          IN  Cardinality(DetailsFor(details, metric, pair))
                = IF Significant(c) \/ Sizeable(c) THEN 1 ELSE 0
    /\ \A k \in 1..Len(details) :
          \E metric \in 1..7, pair \in 1..3 : k \in DetailsFor(details, metric, pair)
    /\ \A k, l \in 1..Len(details) :
          k < l =>
              \E m1, m2 \in 1..7, p1, p2 \in 1..3 :
                  /\ k \in DetailsFor(details, m1, p1)
                  /\ l \in DetailsFor(details, m2, p2)
                  /\ 3 * m1 + p1 < 3 * m2 + p2

\* C23: the significant-differences insight names at most two metrics, the
\* first two metrics in metric order that have a flagged comparison, and its
\* details are the complete list of flagged comparisons in metric order and,
\* within a metric, Rectangle vs Curved, Rectangle vs Circle, Curved vs Circle
C23_FirstTwoFlaggedMetricsNamed ==
    (Derived /\ PrerequisitesPresent) =>
        \A i \in InsightsWithKey("significant-differences") :
            LET insight == view.insights[i]
            IN  /\ Len(insight.metrics) =
                      IF Cardinality(FlaggedMetrics) < 2
                      THEN Cardinality(FlaggedMetrics) ELSE 2
                /\ \A k \in 1..Len(insight.metrics) :
                      \E metric \in FlaggedMetrics :
                          /\ insight.metrics[k] = MetricNames[metric]
                          /\ Cardinality({ m \in FlaggedMetrics : m < metric }) = k - 1
                /\ CompleteInOrder(insight.details)


\* the length of the leading run of digits of a text
DigitRun(chars) ==
    CHOOSE k \in 0..Len(chars) :
        /\ \A i \in 1..k : IsDigit(chars[i])
        /\ k < Len(chars) => ~IsDigit(chars[k + 1])

\* the number written by the first k characters, read in base ten
RECURSIVE DecimalValue(_, _)
DecimalValue(chars, k) ==
    IF k = 0 THEN 0 ELSE 10 * DecimalValue(chars, k - 1) + DigitValue(chars[k])

\* the value of a field after the clean-up of the row
CleanedValue(f, v) ==
    IF f \in Range(attemptFields) /\ v.t = "str" /\ DigitRun(v.s) > 0
    THEN Num(DecimalValue(v.s, DigitRun(v.s)))
    ELSE v

\* C24: the clean-up replaces an attempt field holding a string that starts
\* with digits by the integer of its leading digit run, leaves every other
\* attempt value and every other field as it is, and applied to its own
\* result changes nothing
C24_CleanAttemptFields ==
    /\ Len(cleaned) >= 1 =>
          \A f \in AllFields : cleaned[1][f] = CleanedValue(f, row[1][f])
    /\ Len(cleaned) >= 2 => cleaned[2] = cleaned[1]

\* "27x" became 27 while the age range "18-24" stayed a string, and a second
\* pass left the row as it was
C24_Witness ==
    /\ Len(cleaned) = 2
    /\ row[1]["Number of Attempts_1"] = Str(<< "2", "7", "x" >>)
    /\ cleaned[1]["Number of Attempts_1"] = Num(27)
    /\ cleaned[2]["Number of Attempts_1"] = Num(27)
    /\ cleaned[2]["Age Range"] = Str(<< "1", "8", "-", "2", "4" >>)
    /\ cleaned[1]["Comfort"] = Str(<< "4", " ", "x" >>)


----------------------------------------------------------------------------
(* Properties of the loaded component, checked under Spec *)

\* the rows whose field f is neither null nor undefined
PresentRows(f) == { i \in 1..Len(data) : data[i][f].t # "null" }

\* the values of field f in the given rows, added up
RECURSIVE FieldTotal(_, _)
FieldTotal(indices, f) ==
    IF indices = {} THEN 0
    ELSE LET i == CHOOSE j \in indices : TRUE
         IN  data[i][f].n + FieldTotal(indices \ {i}, f)

\* their squares, added up
RECURSIVE FieldSquares(_, _)
FieldSquares(indices, f) ==
    IF indices = {} THEN 0
    ELSE LET i == CHOOSE j \in indices : TRUE
         IN  data[i][f].n * data[i][f].n + FieldSquares(indices \ {i}, f)

\* the descriptive statistics of a metric for the handle with index h
HandleStats(metric, h) ==
    << statisticalResults[1][metric].rectangle,
       statisticalResults[1][metric].curved,
       statisticalResults[1][metric].circle >>[h]

\* C25: the n reported for a metric and a handle is the number of rows whose
\* field is neither null nor undefined; a 0 is counted and enters the mean,
\* a missing value enters neither n nor the mean nor the standard deviation
C25_MissingExcludedZeroCounted ==
    ~IsNull(statisticalResults) =>
        \A metric \in 1..7, h \in 1..3 :
            LET f     == MetricColumns[metric] \o Suffixes[h]
                rows  == PresentRows(f)
                n     == Cardinality(rows)
                total == FieldTotal(rows, f)
                stats == HandleStats(metric, h)
            IN  /\ stats.n = n
                /\ n > 0 => stats.mean.num * n = stats.mean.den * total
                /\ n = 1 => stats.stdDev.sq.num = 0
                /\ n > 1 => stats.stdDev.sq.num * n * (n - 1)
                              = stats.stdDev.sq.den
                                  * (n * FieldSquares(rows, f) - total * total)

\* three participants: one needed 1 attempt with the Circle handle, one 0,
\* one did not answer; n is 2 and the mean 1/2
C25_Witness ==
    /\ ~IsNull(statisticalResults)
    /\ Len(data) = 3
    /\ \E i, j, k \in 1..3 :
          /\ data[i]["Number of Attempts_2"] = Num(0)
          /\ data[j]["Number of Attempts_2"] = Num(1)
          /\ data[k]["Number of Attempts_2"] = Null
    /\ statisticalResults[1][2].circle.n = 2
    /\ statisticalResults[1][2].circle.mean = Rat(1, 2)


----------------------------------------------------------------------------
(* Range of the scores, checked under SpecScore *)

\* every rating of the row is absent or within 0..5 and every attempts value
\* is absent or a non-negative integer
WithinTheScales(r) ==
    /\ \A n \in RatingNames, h \in 1..3 :
          LET v == r[n \o Suffixes[h]]
          IN  v = Null \/ (v.t = "num" /\ v.n \in 0..5)
    /\ \A f \in Range(attemptFields) :
          r[f] = Null \/ (r[f].t = "num" /\ r[f].n >= 0)

InZeroToFive(x) == RLeq(RZero, x) /\ RLeq(x, RInt(5))

\* C26: for a row whose ratings are absent or within 0..5 and whose attempts
\* values are absent or non-negative integers, each of the three aggregate
\* scores of the participant lies within 0..5
C26_ScoresWithinZeroToFive ==
    (Scored /\ WithinTheScales(TheRow)) =>
        /\ InZeroToFive(TheScore.rectangleScore)
        /\ InZeroToFive(TheScore.curvedScore)
        /\ InZeroToFive(TheScore.circleScore)


----------------------------------------------------------------------------
(* The t statistic of degenerate samples, checked under SpecStats *)

\* C27: for every pair of non-empty samples tTest returns a finite t, also
\* when both samples have zero variance (a single observation each, or all
\* observations equal): no quotient by zero is returned
C27_TIsFiniteForNonEmptySamples ==
    (Analysed /\ Len(arr1) >= 1 /\ Len(arr2) >= 1) =>
        Result.comparison.tValue.k = "finite"


----------------------------------------------------------------------------
(* The states the fetch can leave, checked under Spec *)

\* which of the three results are set
ResultsSet ==
    { k \in 1..3 :
        ~IsNull(<< statisticalResults, aggregateScores, demographicBreakdown >>[k]) }

\* C28: whenever loading is false and error is null the three results are
\* all set; a state in which only some of them are set (the analysis failed
\* part-way) has loading false and error set
C28_NoLoadedStateWithPartialResults ==
    /\ (~loading /\ IsNull(error)) => ResultsSet = { 1, 2, 3 }
    /\ (ResultsSet # {} /\ ResultsSet # { 1, 2, 3 }) => (~loading /\ ~IsNull(error))

\* the analysis set statisticalResults and then failed in
\* calculateAggregateScores: the component shows the error
C28_Witness ==
    /\ fetchState = "done"
    /\ ResultsSet = { 1 }
    /\ ~loading
    /\ ~IsNull(error)
    /\ view.kind = "error"


----------------------------------------------------------------------------
(* Termination of the load, checked under SpecLive *)

\* C29: provided the promises of the fetch are eventually settled, every
\* session eventually has loading false; in the step in which the text
\* arrives the analysis has run to its end (the three results are set, or
\* error is) and loading is false; and loading never becomes true again
C29_LoadingEventuallyEndsForGood ==
    /\ <>(~loading)
    /\ [][(fetchState # "done" /\ fetchState' = "done") =>
            /\ ~loading'
            /\ \/ ~IsNull(error')
               \/ /\ ~IsNull(statisticalResults')
                  /\ ~IsNull(aggregateScores')
                  /\ ~IsNull(demographicBreakdown')]_vars
    /\ [][~loading => ~loading']_vars

\* the text arrived, the analysis of a non-empty dataset ran to its end and
\* the loader is gone after the one request of the session
C29_Witness ==
    /\ fetchState = "done"
    /\ fetches = 1
    /\ Len(data) > 0
    /\ ~loading
    /\ IsNull(error)
    /\ view # LoaderShown


----------------------------------------------------------------------------
(* The top choices, checked under Spec *)

\* the rows whose entry of detail names handle h as top choice
TopChoiceRows(h) ==
    { i \in 1..Len(aggregateScores[1].detail) :
        aggregateScores[1].detail[i].topChoice = h }

\* C30: after calculateAggregateScores detail holds one entry per row, in row
\* order, each with one of the three handles as topChoice; the three
\* topChoiceCounts are the numbers of rows with that top choice, so they are
\* non-negative and add up to the number of rows
C30_OneTopChoicePerRow ==
    ~IsNull(aggregateScores) =>
        LET agg == aggregateScores[1]
        IN  /\ Len(agg.detail) = Len(data)
            /\ \A i \in 1..Len(data) :
                  /\ agg.detail[i].topChoice \in Range(handleTypes)
                  /\ agg.detail[i].participantId =
                        IF Truthy(data[i][ParticipantIdField])
                        THEN data[i][ParticipantIdField] ELSE Unknown
            /\ \A h \in Range(handleTypes) :
                  /\ agg.topChoiceCounts[h] \in Nat
                  /\ agg.topChoiceCounts[h] = Cardinality(TopChoiceRows(h))
            /\ agg.topChoiceCounts["Rectangle Handle"]
                 + agg.topChoiceCounts["Curved Handle"]
                 + agg.topChoiceCounts["Circle Undergrip Handle"] = Len(data)

\* three participants, the second without an id, with two different top
\* choices between them
C30_Witness ==
    /\ ~IsNull(aggregateScores)
    /\ Len(data) = 3
    /\ ~Truthy(data[2][ParticipantIdField])
    /\ aggregateScores[1].detail[2].participantId = Unknown
    /\ aggregateScores[1].detail[1].participantId = data[1][ParticipantIdField]
    /\ Cardinality({ h \in Range(handleTypes) :
                       aggregateScores[1].topChoiceCounts[h] > 0 }) >= 2

============================================================================
